---- MODULE Spec2Model ----
(***************************************************************************)
(* Gate attendance tracker: the route handlers of registerRoutes           *)
(* (src/navigation/RootStackNavigator.tsx, lines 84-1042) over the three    *)
(* tables employees, rosters and attendance.                               *)
(*                                                                         *)
(* Time is counted in ticks of 15 minutes since the Unix epoch (UTC).      *)
(* A timestamp column holds a tick count; NULL stands for SQL NULL.        *)
(*                                                                         *)
(* Spec serves each request whole; SpecAll adds the roster import;         *)
(* SpecRace serves the scans of one badge one await at a time.             *)
(***************************************************************************)
EXTENDS Integers, Sequences, FiniteSets, TLC

VARIABLES
    employees,   \* table employees: sequence of rows, in insertion order
    rosters,     \* table rosters
    attendance,  \* table attendance (the ledger)
    nextId,      \* the next fresh identifier of each table (randomUUID)
    now,         \* the wall clock, as new Date() reads it
    resp,        \* the response to the last gate or import request
    inflight,    \* the gate requests being served, each at one of its awaits
    users,       \* table users: the accounts of the people who sign in
    session      \* req.session.userId of the browser that signs in

vars == <<employees, rosters, attendance, nextId, now, resp, inflight, users,
          session>>

----------------------------------------------------------------------------
(* Bounds of the model *)

MaxEmployees == 2
MaxSessions == 2
MaxUsers == 2

(* Units and program constants *)

TicksPerHour == 4
HoursPerDay == 24
DuplicateWindowHours == 1
OvertimeHours == 9
NULL == -1
UnknownId == 0

TicksPerDay == TicksPerHour * HoursPerDay

(* The server's offset from UTC, in ticks: UTC+05:30. *)
TzOffset == 22

(* The clock readings the model draws from, UTC: Thursday 1970-01-01 17:45 *)
(* (23:15 local) and 18:30 (Friday 00:00 local), Friday 03:30 and 04:30.   *)
StartInstant == 71
Instants == {71, 74, 110, 114}

----------------------------------------------------------------------------
(* Strings *)

SlpidInputs == {"slp1", "SLP2"}
WeekOffInputs == {"THURSDAY"}
ShiftInputs == {"Shift A"}

\* String.prototype.toUpperCase on the badge codes of the model
ToUpperCase(s) ==
    CASE s = "slp1" -> "SLP1"
      [] s = "slp2" -> "SLP2"
      [] OTHER -> s

\* String.prototype.toLowerCase on the weekday names of the model
ToLowerCase(s) ==
    CASE s = "Thursday" -> "thursday"
      [] s = "THURSDAY" -> "thursday"
      [] s = "Friday" -> "friday"
      [] s = "Saturday" -> "saturday"
      [] s = "Sunday" -> "sunday"
      [] s = "Monday" -> "monday"
      [] s = "Tuesday" -> "tuesday"
      [] s = "Wednesday" -> "wednesday"
      [] OTHER -> s

\* a || b on strings: the empty string is falsy
OrElse(a, b) == IF a = "" THEN b ELSE a

----------------------------------------------------------------------------
(* Dates *)

\* Day 0 (1970-01-01) is a Thursday.
WeekdayNames ==
    <<"Thursday", "Friday", "Saturday", "Sunday", "Monday", "Tuesday", "Wednesday">>

\* new Date().toISOString().split("T")[0]: the UTC calendar date, as a day number
IsoDate(t) == t \div TicksPerDay

\* new Date().toLocaleDateString("en-US", { weekday: "long" }): the local weekday
LocalWeekday(t) == WeekdayNames[(((t + TzOffset) \div TicksPerDay) % 7) + 1]

----------------------------------------------------------------------------
(* Table lookups: db.select().from(T).where(c).limit(1) *)

\* the rows matching an employee's badge code
EmployeeBySlpid(emps, slpid) == SelectSeq(emps, LAMBDA e : e.slpid = slpid)

RosterByEmployee(ros, empId) == SelectSeq(ros, LAMBDA r : r.employeeId = empId)

\* the lookup that takes a closed session for an open one
ActiveEntryAnySession(att, empId) ==
    SelectSeq(att, LAMBDA a : a.employeeId = empId)

\* the open session looked up by the wrong column
ActiveEntryById(att, empId) ==
    SelectSeq(att, LAMBDA a : a.id = empId /\ a.gateOutTime = NULL)

\* and(eq(attendance.employeeId, id), isNull(attendance.gateOutTime))
ActiveEntry(att, empId) ==
    SelectSeq(att, LAMBDA a : a.employeeId = empId /\ a.gateOutTime = NULL)

AttendanceById(att, id) == SelectSeq(att, LAMBDA a : a.id = id)

----------------------------------------------------------------------------
(* Hours *)

\* (now.getTime() - gateInTime.getTime()) / (1000 * 60 * 60), kept in ticks
HoursElapsed(t, gateInTime) == t - gateInTime

\* the window taken as one tick, the hour not converted
IsDuplicateScanNoUnit(elapsed) == elapsed < DuplicateWindowHours

\* hoursElapsed < 1
IsDuplicateScan(elapsed) == elapsed < DuplicateWindowHours * TicksPerHour

\* overtime only beyond nine hours
IsOvertimeStrict(elapsed) == elapsed > OvertimeHours * TicksPerHour

\* hoursElapsed >= 9
IsOvertime(elapsed) == elapsed >= OvertimeHours * TicksPerHour

\* Number.prototype.toFixed(1) of a non-negative number of ticks: tenths of
\* an hour, a tie rounded up
ToFixed1(elapsed) == (20 * elapsed + TicksPerHour) \div (2 * TicksPerHour)

\* Number.prototype.toFixed(2): hundredths of an hour
ToFixed2(elapsed) == (200 * elapsed + TicksPerHour) \div (2 * TicksPerHour)

----------------------------------------------------------------------------
(* Responses *)

\* the query string of a request that names no dates
NoQuery ==
    [fromDate |-> NULL, toDate |-> NULL, department |-> "", onlyAbsent |-> FALSE]

NoResponse ==
    [op |-> "none", status |-> 0, action |-> "", hours |-> 0, count |-> 0,
     created |-> 0, updated |-> 0, rows |-> <<>>, query |-> NoQuery]

Response(op, status, action) ==
    [NoResponse EXCEPT !.op = op, !.status = status, !.action = action]

\* the gate requests that can be in flight together
Requests == {1, 2}

\* a request slot with no request in it
Idle ==
    [pc |-> "idle", slpid |-> "", allowWeekOff |-> FALSE, employee |-> <<>>,
     activeEntry |-> <<>>, roster |-> <<>>, isWeekOff |-> FALSE, t |-> NULL]

\* the identifiers a caller can know of
EmployeeIds == {employees[i].id : i \in 1..Len(employees)}
RosterIds == {rosters[i].id : i \in 1..Len(rosters)}

----------------------------------------------------------------------------
Init ==
    /\ employees = <<>>
    /\ rosters = <<>>
    /\ attendance = <<>>
    /\ nextId = [emp |-> 1, ros |-> 1, att |-> 1, usr |-> 1]
    /\ now = StartInstant
    /\ resp = NoResponse
    /\ inflight = [r \in Requests |-> Idle]
    /\ users = <<>>
    /\ session = NULL

\* The clock moves on to a later reading.
Tick ==
    /\ \E t \in Instants : t > now /\ now' = t
    /\ resp' = NoResponse
    /\ UNCHANGED <<users, session, employees, rosters, attendance, nextId, inflight>>

----------------------------------------------------------------------------
(* POST /api/gate/entry *)

\* the update written for every row of the session's employee
SetGateOutOfEmployee(att, id, t, isOvertime) ==
    [i \in 1..Len(att) |->
        IF \E j \in 1..Len(att) : att[j].id = id /\ att[j].employeeId = att[i].employeeId
        THEN [att[i] EXCEPT !.gateOutTime = t, !.isOvertime = isOvertime]
        ELSE att[i]]

\* db.update(attendance).set({ gateOutTime, isOvertime }).where(eq(attendance.id, id))
SetGateOut(att, id, t, isOvertime) ==
    [i \in 1..Len(att) |->
        IF att[i].id = id
        THEN [att[i] EXCEPT !.gateOutTime = t, !.isOvertime = isOvertime]
        ELSE att[i]]

\* the rest day compared as written
IsWeekOffCaseSensitive(roster, dayOfWeek) ==
    /\ roster # <<>>
    /\ roster[1].weekOff = dayOfWeek

\* roster.length > 0 && roster[0].weekOff.toLowerCase() === dayOfWeek.toLowerCase()
IsWeekOff(roster, dayOfWeek) ==
    /\ roster # <<>>
    /\ ToLowerCase(roster[1].weekOff) = ToLowerCase(dayOfWeek)

\* isWeekOff && !allowWeekOff
NeedsConfirmation(isWeekOff, allowWeekOff) == isWeekOff /\ ~allowWeekOff

\* the row with the override stored as the week-off flag
NewSessionOverrideFlag(id, employee, roster, isWeekOff, allowWeekOff, today, t) ==
    [id |-> id, employeeId |-> employee.id, slpid |-> employee.slpid,
     shiftName |-> IF roster # <<>> THEN roster[1].shiftName ELSE "General",
     department |-> employee.department,
     isWeekOffEntry |-> allowWeekOff,
     isOvertime |-> FALSE, date |-> today,
     gateInTime |-> t, gateOutTime |-> NULL]

\* the row of db.insert(attendance).values({...}); gateInTime is the
\* column's default, the time of the insert
NewSession(id, employee, roster, isWeekOff, allowWeekOff, today, t) ==
    [id |-> id, employeeId |-> employee.id, slpid |-> employee.slpid,
     shiftName |-> IF roster # <<>> THEN roster[1].shiftName ELSE "General",
     department |-> employee.department,
     isWeekOffEntry |-> (isWeekOff /\ allowWeekOff),
     isOvertime |-> FALSE, date |-> today,
     gateInTime |-> t, gateOutTime |-> NULL]

\* the decision that stamps the open session on a duplicate scan too
ScanOpenSessionStampsDuplicate(att, activeEntry, t, base) ==
    LET hoursElapsed == HoursElapsed(t, activeEntry.gateInTime) IN
    IF IsDuplicateScan(hoursElapsed)
    THEN [att |-> SetGateOut(att, activeEntry.id, t, IsOvertime(hoursElapsed)),
          inserted |-> FALSE,
          resp |-> [base EXCEPT !.status = 400, !.action = "none",
                                !.hours = ToFixed2(hoursElapsed)]]
    ELSE [att |-> SetGateOut(att, activeEntry.id, t, IsOvertime(hoursElapsed)),
          inserted |-> FALSE,
          resp |-> [base EXCEPT !.status = 200, !.action = "gate_out",
                                !.hours = ToFixed1(hoursElapsed)]]

\* The decision for an employee with an open session (lines 444-470).
ScanOpenSession(att, activeEntry, t, base) ==
    LET hoursElapsed == HoursElapsed(t, activeEntry.gateInTime) IN
    IF IsDuplicateScan(hoursElapsed)
    THEN [att |-> att, inserted |-> FALSE,
          resp |-> [base EXCEPT !.status = 400, !.action = "none",
                                !.hours = ToFixed2(hoursElapsed)]]
    ELSE [att |-> SetGateOut(att, activeEntry.id, t, IsOvertime(hoursElapsed)),
          inserted |-> FALSE,
          resp |-> [base EXCEPT !.status = 200, !.action = "gate_out",
                                !.hours = ToFixed1(hoursElapsed)]]

\* The decision for an employee with no open session (lines 472-489).
ScanFresh(ros, att, attId, employee, allowWeekOff, t, base) ==
    LET roster == RosterByEmployee(ros, employee.id)
        isWeekOff == IsWeekOff(roster, LocalWeekday(t))
    IN  IF NeedsConfirmation(isWeekOff, allowWeekOff)
        THEN [att |-> att, inserted |-> FALSE,
              resp |-> [base EXCEPT !.status = 409, !.action = "week_off"]]
        ELSE [att |-> Append(att, NewSession(attId, employee, roster, isWeekOff,
                                             allowWeekOff, IsoDate(t), t)),
              inserted |-> TRUE,
              resp |-> [base EXCEPT !.status = 200, !.action = "gate_in"]]

\* the returns without the test of isActive
EmployeeStatusIgnoresActive(employee) == IF employee = <<>> THEN 404 ELSE 0

\* The early returns on the looked-up employee (lines 436-437): the status
\* of the failure, or 0 to go on.
EmployeeStatus(employee) ==
    IF employee = <<>> THEN 404
    ELSE IF ~employee[1].isActive THEN 403
    ELSE 0

\* a handler that looks up the open session before it tests isActive
GateEntryOpenSessionFirst(emps, ros, att, attId, slpid, allowWeekOff, t) ==
    LET base == Response("gate/entry", 0, "")
        employee == EmployeeBySlpid(emps, ToUpperCase(slpid))
    IN  IF slpid = ""
        THEN [att |-> att, inserted |-> FALSE, resp |-> [base EXCEPT !.status = 400]]
        ELSE IF employee = <<>>
        THEN [att |-> att, inserted |-> FALSE, resp |-> [base EXCEPT !.status = 404]]
        ELSE LET activeEntry == ActiveEntry(att, employee[1].id) IN
             IF activeEntry # <<>>
             THEN ScanOpenSession(att, activeEntry[1], t, base)
             ELSE IF EmployeeStatus(employee) # 0
             THEN [att |-> att, inserted |-> FALSE,
                   resp |-> [base EXCEPT !.status = EmployeeStatus(employee)]]
             ELSE ScanFresh(ros, att, attId, employee[1], allowWeekOff, t, base)

\* The whole handler, as one transaction on the tables.
GateEntry(emps, ros, att, attId, slpid, allowWeekOff, t) ==
    LET base == Response("gate/entry", 0, "")
        employee == EmployeeBySlpid(emps, ToUpperCase(slpid))
    IN  IF slpid = ""
        THEN [att |-> att, inserted |-> FALSE, resp |-> [base EXCEPT !.status = 400]]
        ELSE IF EmployeeStatus(employee) # 0
        THEN [att |-> att, inserted |-> FALSE,
              resp |-> [base EXCEPT !.status = EmployeeStatus(employee)]]
        ELSE LET activeEntry == ActiveEntry(att, employee[1].id) IN
             IF activeEntry # <<>>
             THEN ScanOpenSession(att, activeEntry[1], t, base)
             ELSE ScanFresh(ros, att, attId, employee[1], allowWeekOff, t, base)

\* what a scan of the badge would do in the current state
ScanResult(slpid, allowWeekOff) ==
    GateEntry(employees, rosters, attendance, nextId.att, slpid, allowWeekOff, now)

ScanGate(slpid, allowWeekOff) ==
    LET r == ScanResult(slpid, allowWeekOff)
    IN  /\ r.inserted => nextId.att <= MaxSessions
        /\ attendance' = r.att
        /\ nextId' = IF r.inserted THEN [nextId EXCEPT !.att = @ + 1] ELSE nextId
        /\ resp' = r.resp
        /\ UNCHANGED <<users, session, employees, rosters, now, inflight>>

----------------------------------------------------------------------------
(* POST /api/employees *)

CreateEmployee(slpid, shiftName, weekOff, rosterFails) ==
    LET existing == EmployeeBySlpid(employees, ToUpperCase(slpid))
        newEmployee == [id |-> nextId.emp, slpid |-> ToUpperCase(slpid),
                        isActive |-> TRUE, department |-> "Inbound"]
        newRoster == [id |-> nextId.ros, employeeId |-> newEmployee.id,
                      shiftName |-> OrElse(shiftName, "General"),
                      weekOff |-> OrElse(weekOff, "Sunday")]
    IN  IF existing # <<>>
        THEN /\ resp' = NoResponse
             /\ UNCHANGED <<users, session, employees, rosters, attendance, nextId, now, inflight>>
        ELSE /\ nextId.emp <= MaxEmployees
             /\ employees' = Append(employees, newEmployee)
             /\ IF rosterFails
                THEN /\ nextId' = [nextId EXCEPT !.emp = @ + 1]
                     /\ UNCHANGED rosters
                ELSE /\ nextId' = [nextId EXCEPT !.emp = @ + 1, !.ros = @ + 1]
                     /\ rosters' = Append(rosters, newRoster)
             /\ resp' = NoResponse
             /\ UNCHANGED <<users, session, attendance, now, inflight>>

\* a request body, and whether the insert into rosters fails
CreateInput(slpid, rosterFails) ==
    [slpid |-> slpid, shiftName |-> "Shift A", weekOff |-> "THURSDAY",
     rosterFails |-> rosterFails]

\* the requests at the gate's desk: the first badge gets its roster, the
\* second is left without one
CreateInputs == {CreateInput("slp1", FALSE), CreateInput("SLP2", TRUE)}

\* the requests when every insert succeeds
CreateInputsStored == {CreateInput("slp1", FALSE), CreateInput("SLP2", FALSE)}

----------------------------------------------------------------------------
(* PUT /api/employees/:id *)

\* an update that also closes the open sessions of a deactivated employee
UpdateEmployeeClosesSessions(id, isActive) ==
    /\ employees' = [i \in 1..Len(employees) |->
                        IF employees[i].id = id
                        THEN [employees[i] EXCEPT !.isActive = isActive]
                        ELSE employees[i]]
    /\ attendance' = [a \in 1..Len(attendance) |->
                         IF /\ ~isActive
                            /\ attendance[a].employeeId = id
                            /\ attendance[a].gateOutTime = NULL
                         THEN [attendance[a] EXCEPT !.gateOutTime = now]
                         ELSE attendance[a]]
    /\ resp' = NoResponse
    /\ UNCHANGED <<users, session, rosters, nextId, now, inflight>>

UpdateEmployee(id, isActive) ==
    /\ employees' = [i \in 1..Len(employees) |->
                        IF employees[i].id = id
                        THEN [employees[i] EXCEPT !.isActive = isActive]
                        ELSE employees[i]]
    /\ resp' = NoResponse
    /\ UNCHANGED <<users, session, rosters, attendance, nextId, now, inflight>>

----------------------------------------------------------------------------
(* PUT /api/rosters/:id *)

UpdateRoster(id, shiftName, weekOff) ==
    /\ rosters' = [i \in 1..Len(rosters) |->
                      IF rosters[i].id = id
                      THEN [rosters[i] EXCEPT !.shiftName = shiftName,
                                              !.weekOff = weekOff]
                      ELSE rosters[i]]
    /\ resp' = NoResponse
    /\ UNCHANGED <<users, session, employees, attendance, nextId, now, inflight>>

----------------------------------------------------------------------------
(* POST /api/gate/bulk-out *)

\* a loop turn that counts an identifier even when no row answers to it
BulkOutOneCountsUnknown(st, attId, t) ==
    LET att == AttendanceById(st.att, attId) IN
    IF att # <<>>
    THEN [att |-> SetGateOut(st.att, attId, t,
                             IsOvertime(HoursElapsed(t, att[1].gateInTime))),
          count |-> st.count + 1]
    ELSE [st EXCEPT !.count = st.count + 1]

\* one turn of the loop over attendanceIds (lines 525-531)
BulkOutOne(st, attId, t) ==
    LET att == AttendanceById(st.att, attId) IN
    IF att # <<>>
    THEN [att |-> SetGateOut(st.att, attId, t,
                             IsOvertime(HoursElapsed(t, att[1].gateInTime))),
          count |-> st.count + 1]
    ELSE st

RECURSIVE BulkOutLoop(_, _, _)
BulkOutLoop(st, attendanceIds, t) ==
    IF attendanceIds = <<>>
    THEN st
    ELSE BulkOutLoop(BulkOutOne(st, Head(attendanceIds), t), Tail(attendanceIds), t)

\* the attendanceIds arrays of the requests: single, several and repeated
\* identifiers, and one that names no row
BulkIdInputs ==
    {<<1>>, <<2>>, <<1, 2>>, <<1, 2, 1>>, <<UnknownId>>, <<2, UnknownId, 1>>}

\* what the loop would do to the ledger in the current state
BulkResult(attendanceIds) ==
    BulkOutLoop([att |-> attendance, count |-> 0], attendanceIds, now)

BulkOut(attendanceIds) ==
    LET base == Response("gate/bulk-out", 0, "")
        r == BulkResult(attendanceIds)
    IN  IF Len(attendanceIds) = 0
        THEN /\ resp' = [base EXCEPT !.status = 400]
             /\ UNCHANGED <<users, session, employees, rosters, attendance, nextId, now, inflight>>
        ELSE /\ attendance' = r.att
             /\ resp' = [base EXCEPT !.status = 200, !.count = r.count]
             /\ UNCHANGED <<users, session, employees, rosters, nextId, now, inflight>>

----------------------------------------------------------------------------
(* POST /api/rosters/upload *)

\* the rows of an uploaded sheet: one without a name, one per badge
UploadRow(slpid, name) ==
    [slpid |-> slpid, name |-> name, shiftName |-> "Shift A", weekOff |-> "THURSDAY"]

\* the uploaded sheets
UploadSheets ==
    {<<UploadRow("slp1", "N")>>,
     <<UploadRow("slp1", ""), UploadRow("SLP2", "N")>>}

\* a loop turn that inserts a roster without looking for an existing one
UploadOneAlwaysInserts(st, row) ==
    LET slpid == ToUpperCase(row.slpid)
        found == EmployeeBySlpid(st.emps, slpid)
        newEmp == [id |-> st.nid.emp, slpid |-> slpid, isActive |-> TRUE,
                   department |-> "Inbound"]
        employee == IF found = <<>> THEN newEmp ELSE found[1]
        nid1 == IF found = <<>> THEN [st.nid EXCEPT !.emp = @ + 1] ELSE st.nid
    IN  IF slpid = "" \/ row.name = ""
        THEN st
        ELSE [st EXCEPT !.emps = IF found = <<>> THEN Append(st.emps, newEmp) ELSE st.emps,
                        !.nid = [nid1 EXCEPT !.ros = @ + 1],
                        !.ros = Append(st.ros, [id |-> nid1.ros,
                                                employeeId |-> employee.id,
                                                shiftName |-> OrElse(row.shiftName, "General"),
                                                weekOff |-> OrElse(row.weekOff, "Sunday")]),
                        !.created = @ + 1]

\* one turn of the loop over the rows (lines 638-695)
UploadOne(st, row) ==
    LET slpid == ToUpperCase(row.slpid)
        found == EmployeeBySlpid(st.emps, slpid)
        newEmp == [id |-> st.nid.emp, slpid |-> slpid, isActive |-> TRUE,
                   department |-> "Inbound"]
        employee == IF found = <<>> THEN newEmp ELSE found[1]
        emps1 == IF found = <<>> THEN Append(st.emps, newEmp) ELSE st.emps
        created1 == IF found = <<>> THEN st.created + 1 ELSE st.created
        nid1 == IF found = <<>> THEN [st.nid EXCEPT !.emp = @ + 1] ELSE st.nid
        existingRoster == RosterByEmployee(st.ros, employee.id)
        shiftName == OrElse(row.shiftName, "General")
        weekOff == OrElse(row.weekOff, "Sunday")
    IN  IF slpid = "" \/ row.name = ""
        THEN st
        ELSE IF existingRoster # <<>>
        THEN [st EXCEPT !.emps = emps1, !.nid = nid1, !.created = created1,
                        !.ros = [i \in 1..Len(st.ros) |->
                                    IF st.ros[i].id = existingRoster[1].id
                                    THEN [st.ros[i] EXCEPT !.shiftName = shiftName,
                                                           !.weekOff = weekOff]
                                    ELSE st.ros[i]],
                        !.updated = @ + 1]
        ELSE [st EXCEPT !.emps = emps1,
                        !.nid = [nid1 EXCEPT !.ros = @ + 1],
                        !.ros = Append(st.ros, [id |-> nid1.ros,
                                                employeeId |-> employee.id,
                                                shiftName |-> shiftName,
                                                weekOff |-> weekOff]),
                        !.created = created1 + 1]

RECURSIVE UploadLoop(_, _)
UploadLoop(st, rows) ==
    IF rows = <<>> THEN st ELSE UploadLoop(UploadOne(st, Head(rows)), Tail(rows))

UploadRoster(rows) ==
    LET base == Response("rosters/upload", 0, "")
        r == UploadLoop([emps |-> employees, ros |-> rosters, nid |-> nextId,
                         created |-> 0, updated |-> 0], rows)
    IN  IF Len(rows) = 0
        THEN /\ resp' = [base EXCEPT !.status = 400]
             /\ UNCHANGED <<users, session, employees, rosters, attendance, nextId, now, inflight>>
        ELSE /\ r.nid.emp <= MaxEmployees + 1
             /\ employees' = r.emps
             /\ rosters' = r.ros
             /\ nextId' = r.nid
             /\ resp' = [base EXCEPT !.status = 200, !.created = r.created,
                                     !.updated = r.updated]
             /\ UNCHANGED <<users, session, attendance, now, inflight>>

----------------------------------------------------------------------------
(* POST /api/gate/entry, one await at a time: the requests in flight share *)
(* the tables and each resumes after the query it awaits.                  *)

\* a storage layer that accepts every row
AcceptsEveryRow(att, empId) == TRUE

\* The storage layer's rule on the attendance table: at most one row of an
\* employee has no gate-out time. An insert that would break it fails.
OpenSessionUnique(att, empId) == ActiveEntry(att, empId) = <<>>

\* what is written to inflight when request r ends
Finish(r) == [inflight EXCEPT ![r] = Idle]

\* the request arrives: req.body is read, the employee query is issued
Receive(r, slpid, allowWeekOff) ==
    /\ inflight[r].pc = "idle"
    /\ inflight' = [inflight EXCEPT ![r] = [Idle EXCEPT !.pc = "employee",
                                                        !.slpid = slpid,
                                                        !.allowWeekOff = allowWeekOff]]
    /\ UNCHANGED <<users, session, employees, rosters, attendance, nextId, now, resp>>

\* line 435 resolves; lines 436-440 run, the open session query is issued
SelectEmployee(r) ==
    LET q == inflight[r]
        employee == EmployeeBySlpid(employees, ToUpperCase(q.slpid))
        status == EmployeeStatus(employee)
    IN  /\ q.pc = "employee"
        /\ IF status # 0
           THEN /\ resp' = Response("gate/entry", status, "")
                /\ inflight' = Finish(r)
           ELSE /\ inflight' = [inflight EXCEPT ![r] = [q EXCEPT !.pc = "activeEntry",
                                                                 !.employee = employee,
                                                                 !.t = now]]
                /\ UNCHANGED resp
        /\ UNCHANGED <<users, session, employees, rosters, attendance, nextId, now>>

\* line 442 resolves; lines 444-455 run: the duplicate answer, or the update
\* or the roster query is issued
SelectActiveEntry(r) ==
    LET q == inflight[r]
        activeEntry == ActiveEntry(attendance, q.employee[1].id)
        base == Response("gate/entry", 0, "")
    IN  /\ q.pc = "activeEntry"
        /\ IF activeEntry = <<>>
           THEN /\ inflight' = [inflight EXCEPT ![r] = [q EXCEPT !.pc = "roster"]]
                /\ UNCHANGED resp
           ELSE IF IsDuplicateScan(HoursElapsed(q.t, activeEntry[1].gateInTime))
           THEN /\ resp' = ScanOpenSession(attendance, activeEntry[1], q.t, base).resp
                /\ inflight' = Finish(r)
           ELSE /\ inflight' = [inflight EXCEPT ![r] = [q EXCEPT !.pc = "update",
                                                                 !.activeEntry = activeEntry]]
                /\ UNCHANGED resp
        /\ UNCHANGED <<users, session, employees, rosters, attendance, nextId, now>>

\* lines 457-460 resolve: the update by the identifier read at line 442
UpdateGateOut(r) ==
    LET q == inflight[r]
        res == ScanOpenSession(attendance, q.activeEntry[1], q.t,
                               Response("gate/entry", 0, ""))
    IN  /\ q.pc = "update"
        /\ attendance' = res.att
        /\ resp' = res.resp
        /\ inflight' = Finish(r)
        /\ UNCHANGED <<users, session, employees, rosters, nextId, now>>

\* line 472 resolves; lines 473-475 run: the week-off answer, or the insert
\* is issued
SelectRoster(r) ==
    LET q == inflight[r]
        roster == RosterByEmployee(rosters, q.employee[1].id)
        isWeekOff == IsWeekOff(roster, LocalWeekday(now))
    IN  /\ q.pc = "roster"
        /\ IF NeedsConfirmation(isWeekOff, q.allowWeekOff)
           THEN /\ resp' = Response("gate/entry", 409, "week_off")
                /\ inflight' = Finish(r)
           ELSE /\ inflight' = [inflight EXCEPT ![r] = [q EXCEPT !.pc = "insert",
                                                                 !.roster = roster,
                                                                 !.isWeekOff = isWeekOff]]
                /\ UNCHANGED resp
        /\ UNCHANGED <<users, session, employees, rosters, attendance, nextId, now>>

\* lines 477-482 resolve: the row is stored, or the insert throws and the
\* catch of line 490 answers 500
InsertAttendance(r) ==
    LET q == inflight[r]
        row == NewSession(nextId.att, q.employee[1], q.roster, q.isWeekOff,
                          q.allowWeekOff, IsoDate(q.t), now)
    IN  /\ q.pc = "insert"
        /\ IF OpenSessionUnique(attendance, q.employee[1].id)
           THEN /\ nextId.att <= MaxSessions
                /\ attendance' = Append(attendance, row)
                /\ nextId' = [nextId EXCEPT !.att = @ + 1]
                /\ resp' = Response("gate/entry", 200, "gate_in")
           ELSE /\ resp' = Response("gate/entry", 500, "")
                /\ UNCHANGED <<users, session, attendance, nextId>>
        /\ inflight' = Finish(r)
        /\ UNCHANGED <<users, session, employees, rosters, now>>

----------------------------------------------------------------------------
(* GET /api/reports *)

\* the date ranges of the requests: three days from the Thursday, two days
\* after it, and a range whose first date is the later one
ReportRanges == {<<0, 2>>, <<1, 2>>, <<2, 1>>}

\* the department the requests filter on; every employee is in "Inbound"
DepartmentInputs == {"Outbound"}

Query(fromDate, toDate, department, onlyAbsent) ==
    [fromDate |-> fromDate, toDate |-> toDate, department |-> department,
     onlyAbsent |-> onlyAbsent]

\* the query strings: every range with and without onlyAbsent, one with a
\* department, one without dates
ReportQueries ==
    {Query(rg[1], rg[2], "", o) : rg \in ReportRanges, o \in BOOLEAN}
    \cup {Query(0, 2, d, FALSE) : d \in DepartmentInputs}
    \cup {NoQuery}

\* randomUUID(): the k-th identifier drawn during a request is seed + k, the
\* seed being any of these
UuidSeeds == {100, 200}

\* the loop that stops before the last date
DatesExclusive(fromDate, toDate) ==
    IF fromDate >= toDate
    THEN <<>>
    ELSE [i \in 1..(toDate - fromDate) |-> fromDate + i - 1]

\* for (d = new Date(fromDate); d <= new Date(toDate); d.setDate(d.getDate() + 1))
Dates(fromDate, toDate) ==
    IF fromDate > toDate
    THEN <<>>
    ELSE [i \in 1..(toDate - fromDate + 1) |-> fromDate + i - 1]

\* new Date(date).toLocaleDateString("en-US", { weekday: "long" }): the local
\* weekday at the UTC midnight of the date
DayOfWeek(date) == LocalWeekday(date * TicksPerDay)

\* the last match instead of the first
FindLast(seq) == IF seq = <<>> THEN <<>> ELSE <<seq[Len(seq)]>>

\* Array.prototype.find, as a sequence of no or one element
Find(seq) == IF seq = <<>> THEN <<>> ELSE <<seq[1]>>

\* ros?.weekOff?.toLowerCase() === dayOfWeek.toLowerCase()
ReportIsWeekOff(ros, date) ==
    /\ ros # <<>>
    /\ ToLowerCase(ros[1].weekOff) = ToLowerCase(DayOfWeek(date))

\* the record pushed for a day without a session (lines 753-760, 779-786)
AbsentRow(id, emp, ros, date) ==
    [id |-> id, slpid |-> emp.slpid, department |-> emp.department,
     date |-> date, gateInTime |-> NULL, gateOutTime |-> NULL,
     shiftName |-> IF ros # <<>> THEN OrElse(ros[1].shiftName, "General") ELSE "General",
     totalHours |-> 0, otHours |-> 0, status |-> "A"]

\* the record with the excess taken without the test of the nine hours
PresentRowRawExcess(att) ==
    LET totalHours == IF att.gateOutTime # NULL
                      THEN att.gateOutTime - att.gateInTime
                      ELSE 0
    IN  [id |-> att.id, slpid |-> att.slpid, department |-> att.department,
         date |-> att.date, gateInTime |-> att.gateInTime,
         gateOutTime |-> att.gateOutTime, shiftName |-> att.shiftName,
         totalHours |-> ToFixed2(totalHours),
         otHours |-> ToFixed2(totalHours) - ToFixed2(OvertimeHours * TicksPerHour),
         status |-> "P"]

\* the record pushed for a day with a session (lines 764-777)
PresentRow(att) ==
    LET totalHours == IF att.gateOutTime # NULL
                      THEN att.gateOutTime - att.gateInTime
                      ELSE 0
    IN  [id |-> att.id, slpid |-> att.slpid, department |-> att.department,
         date |-> att.date, gateInTime |-> att.gateInTime,
         gateOutTime |-> att.gateOutTime, shiftName |-> att.shiftName,
         totalHours |-> ToFixed2(totalHours),
         otHours |-> ToFixed2(IF totalHours > OvertimeHours * TicksPerHour
                              THEN totalHours - OvertimeHours * TicksPerHour
                              ELSE 0),
         status |-> "P"]

\* a report that has a row for the rest days too
ReportOneWithRestDays(st, emp, ros, allAtt, date, onlyAbsent) ==
    LET att == Find(SelectSeq(allAtt, LAMBDA a : a.employeeId = emp.id /\ a.date = date))
        absent == [records |-> Append(st.records, AbsentRow(st.uuid, emp, ros, date)),
                   uuid |-> st.uuid + 1]
    IN  IF onlyAbsent
        THEN IF att = <<>> THEN absent ELSE st
        ELSE IF att # <<>>
             THEN [st EXCEPT !.records = Append(@, PresentRow(att[1]))]
             ELSE absent

\* one turn of dates.forEach (lines 745-789)
ReportOne(st, emp, ros, allAtt, date, onlyAbsent) ==
    LET isWeekOff == ReportIsWeekOff(ros, date)
        att == Find(SelectSeq(allAtt, LAMBDA a : a.employeeId = emp.id /\ a.date = date))
        absent == [records |-> Append(st.records, AbsentRow(st.uuid, emp, ros, date)),
                   uuid |-> st.uuid + 1]
    IN  IF onlyAbsent
        THEN IF ~isWeekOff /\ att = <<>> THEN absent ELSE st
        ELSE IF att # <<>>
             THEN [st EXCEPT !.records = Append(@, PresentRow(att[1]))]
             ELSE IF ~isWeekOff THEN absent ELSE st

RECURSIVE ReportDates(_, _, _, _, _, _)
ReportDates(st, emp, ros, allAtt, dates, onlyAbsent) ==
    IF dates = <<>>
    THEN st
    ELSE ReportDates(ReportOne(st, emp, ros, allAtt, Head(dates), onlyAbsent),
                     emp, ros, allAtt, Tail(dates), onlyAbsent)

\* allEmp.forEach (lines 741-790)
RECURSIVE ReportEmployees(_, _, _, _, _, _)
ReportEmployees(st, allEmp, allRos, allAtt, dates, query) ==
    IF allEmp = <<>>
    THEN st
    ELSE LET emp == Head(allEmp)
             ros == Find(SelectSeq(allRos, LAMBDA r : r.employeeId = emp.id))
         IN  ReportEmployees(
                 IF query.department # "" /\ emp.department # query.department
                 THEN st
                 ELSE ReportDates(st, emp, ros, allAtt, dates, query.onlyAbsent),
                 Tail(allEmp), allRos, allAtt, dates, query)

\* the records left in the order of the two loops
SortKeepsOrder(records, hi, lo) == records

\* records.sort((a, b) => new Date(b.date) - new Date(a.date)): the latest
\* date first, the records of one date in the order they had (the sort is
\* stable); every date of a record lies in lo..hi
RECURSIVE SortByDateDesc(_, _, _)
SortByDateDesc(records, hi, lo) ==
    IF hi < lo
    THEN <<>>
    ELSE SelectSeq(records, LAMBDA r : r.date = hi) \o SortByDateDesc(records, hi - 1, lo)

\* the body of the handler after the test of the dates (lines 731-792)
BuildReport(emps, ros, att, query, seed) ==
    LET allEmp == SelectSeq(emps, LAMBDA e : e.isActive)
        allAtt == SelectSeq(att, LAMBDA a : a.date >= query.fromDate /\ a.date <= query.toDate)
        dates == Dates(query.fromDate, query.toDate)
        st == ReportEmployees([records |-> <<>>, uuid |-> seed + 1],
                              allEmp, ros, allAtt, dates, query)
    IN  SortByDateDesc(st.records, query.toDate, query.fromDate)

\* !fromDate || !toDate
DatesMissing(query) == query.fromDate = NULL \/ query.toDate = NULL

\* what the handler would answer in the current state
ReportResult(query, seed) == BuildReport(employees, rosters, attendance, query, seed)

Report(query, seed) ==
    /\ resp' = IF DatesMissing(query)
               THEN [Response("reports", 400, "") EXCEPT !.query = query]
               ELSE [Response("reports", 200, "") EXCEPT
                        !.query = query, !.rows = ReportResult(query, seed)]
    /\ UNCHANGED <<users, session, employees, rosters, attendance, nextId, now, inflight>>

\* handleSearch of the reports screen: the toast, or the query is run
HandleSearch(fromDate, toDate, department, seed) ==
    IF fromDate > toDate
    THEN /\ resp' = Response("screen/reports", 0, "toast")
         /\ UNCHANGED <<users, session, employees, rosters, attendance, nextId, now, inflight>>
    ELSE Report(Query(fromDate, toDate, department, FALSE), seed)

----------------------------------------------------------------------------
(* GET /api/reports/export *)

\* a matrix with the rest day looked at first
ExportStatusRestDayFirst(att, isWeekOff) ==
    IF isWeekOff THEN "WO" ELSE IF att # <<>> THEN "P" ELSE "A"

\* row[d] = att ? "P" : (isWeekOff ? "WO" : "A")
ExportStatus(att, isWeekOff) ==
    IF att # <<>> THEN "P" ELSE IF isWeekOff THEN "WO" ELSE "A"

\* the row of an employee in the matrix (lines 972-994)
ExportRow(emp, allRos, allAtt, dates) ==
    LET ros == Find(SelectSeq(allRos, LAMBDA r : r.employeeId = emp.id))
        atts == SelectSeq(allAtt, LAMBDA a : a.employeeId = emp.id)
        days == [i \in 1..Len(dates) |->
                    ExportStatus(Find(SelectSeq(atts, LAMBDA a : a.date = dates[i])),
                                 ReportIsWeekOff(ros, dates[i]))]
    IN  [slpid |-> emp.slpid, days |-> days,
         totalPresent |-> Cardinality({i \in 1..Len(dates) : days[i] = "P"})]

\* the rows of the sheet "Absents" for one employee (lines 937-964)
RECURSIVE ExportAbsentDates(_, _, _, _)
ExportAbsentDates(emp, ros, allAtt, dates) ==
    IF dates = <<>>
    THEN <<>>
    ELSE LET d == Head(dates)
             att == Find(SelectSeq(allAtt, LAMBDA a : a.employeeId = emp.id /\ a.date = d))
             rest == ExportAbsentDates(emp, ros, allAtt, Tail(dates))
         IN  IF ~ReportIsWeekOff(ros, d) /\ att = <<>>
             THEN <<[slpid |-> emp.slpid, date |-> d, status |-> "A"]>> \o rest
             ELSE rest

RECURSIVE ExportAbsent(_, _, _, _)
ExportAbsent(allEmp, allRos, allAtt, dates) ==
    IF allEmp = <<>>
    THEN <<>>
    ELSE ExportAbsentDates(Head(allEmp),
                           Find(SelectSeq(allRos, LAMBDA r : r.employeeId = Head(allEmp).id)),
                           allAtt, dates)
         \o ExportAbsent(Tail(allEmp), allRos, allAtt, dates)

\* the sheet the handler writes (lines 926-994)
BuildExport(emps, ros, att, query) ==
    LET allEmp == SelectSeq(emps, LAMBDA e :
                      /\ e.isActive
                      /\ query.department # "" => e.department = query.department)
        allAtt == SelectSeq(att, LAMBDA a : a.date >= query.fromDate /\ a.date <= query.toDate)
        dates == Dates(query.fromDate, query.toDate)
    IN  IF query.onlyAbsent
        THEN ExportAbsent(allEmp, ros, allAtt, dates)
        ELSE [i \in 1..Len(allEmp) |-> ExportRow(allEmp[i], ros, allAtt, dates)]

ExportResult(query) == BuildExport(employees, rosters, attendance, query)

Export(query) ==
    /\ resp' = IF DatesMissing(query)
               THEN [Response("reports/export", 400, "") EXCEPT !.query = query]
               ELSE [Response("reports/export", 200, "") EXCEPT
                        !.query = query, !.rows = ExportResult(query)]
    /\ UNCHANGED <<users, session, employees, rosters, attendance, nextId, now, inflight>>

----------------------------------------------------------------------------
(* GET /api/reports/export-detailed *)

\* the sheet row of a session (lines 1011-1029)
DetailedRow(a) ==
    LET hrs == IF a.gateOutTime # NULL THEN a.gateOutTime - a.gateInTime ELSE 0
    IN  [id |-> a.id, slpid |-> a.slpid, department |-> a.department,
         date |-> a.date, gateInTime |-> a.gateInTime,
         gateOutTime |-> a.gateOutTime, shiftName |-> a.shiftName,
         weekOffPresent |-> a.isWeekOffEntry,
         totalHours |-> ToFixed2(hrs),
         otHours |-> ToFixed2(IF hrs > OvertimeHours * TicksPerHour
                              THEN hrs - OvertimeHours * TicksPerHour
                              ELSE 0)]

\* atts.filter(a => !department || a.department === department).map(...)
BuildDetailed(att, query) ==
    LET atts == SelectSeq(att, LAMBDA a : a.date >= query.fromDate /\ a.date <= query.toDate)
        kept == SelectSeq(atts, LAMBDA a :
                    query.department = "" \/ a.department = query.department)
    IN  [i \in 1..Len(kept) |-> DetailedRow(kept[i])]

\* the query strings of the detailed export: the ranges, one with a department
DetailedQueries ==
    {Query(rg[1], rg[2], "", FALSE) : rg \in ReportRanges}
    \cup {Query(0, 2, d, FALSE) : d \in DepartmentInputs}

ExportDetailed(query) ==
    /\ resp' = [Response("reports/export-detailed", 200, "") EXCEPT
                   !.query = query, !.rows = BuildDetailed(attendance, query)]
    /\ UNCHANGED <<users, session, employees, rosters, attendance, nextId, now, inflight>>

----------------------------------------------------------------------------
(* The gate and the administration of employees and rosters, each request *)
(* served whole before the next.                                          *)

Next ==
    \/ Tick
    \/ \E s \in SlpidInputs, a \in BOOLEAN : ScanGate(s, a)
    \/ \E ids \in BulkIdInputs : BulkOut(ids)
    \/ \E c \in CreateInputs :
          CreateEmployee(c.slpid, c.shiftName, c.weekOff, c.rosterFails)
    \/ \E id \in EmployeeIds, act \in BOOLEAN : UpdateEmployee(id, act)
    \/ \E id \in RosterIds, sh \in ShiftInputs, w \in WeekOffInputs :
          UpdateRoster(id, sh, w)

Spec == Init /\ [][Next]_vars

(* The same with the roster import, every employee stored with a roster. *)

NextAll ==
    \/ Tick
    \/ \E s \in SlpidInputs, a \in BOOLEAN : ScanGate(s, a)
    \/ \E ids \in BulkIdInputs : BulkOut(ids)
    \/ \E c \in CreateInputsStored :
          CreateEmployee(c.slpid, c.shiftName, c.weekOff, c.rosterFails)
    \/ \E id \in EmployeeIds, act \in BOOLEAN : UpdateEmployee(id, act)
    \/ \E id \in RosterIds, sh \in ShiftInputs, w \in WeekOffInputs :
          UpdateRoster(id, sh, w)
    \/ \E rows \in UploadSheets : UploadRoster(rows)

SpecAll == Init /\ [][NextAll]_vars

(* The gate serving concurrent requests for one badge. *)

RaceSlpid == "slp1"

NextRace ==
    \/ Tick
    \/ \E c \in CreateInputs :
          /\ c.slpid = RaceSlpid
          /\ CreateEmployee(c.slpid, c.shiftName, c.weekOff, c.rosterFails)
    \/ \E r \in Requests, a \in BOOLEAN : Receive(r, RaceSlpid, a)
    \/ \E r \in Requests : SelectEmployee(r)
    \/ \E r \in Requests : SelectActiveEntry(r)
    \/ \E r \in Requests : UpdateGateOut(r)
    \/ \E r \in Requests : SelectRoster(r)
    \/ \E r \in Requests : InsertAttendance(r)

SpecRace == Init /\ [][NextRace]_vars

----------------------------------------------------------------------------
(* The gate, the employees and the reports read from the ledger. *)

NextReport ==
    \/ Tick
    \/ \E s \in SlpidInputs, a \in BOOLEAN : ScanGate(s, a)
    \/ \E c \in CreateInputs :
          CreateEmployee(c.slpid, c.shiftName, c.weekOff, c.rosterFails)
    \/ \E id \in EmployeeIds : UpdateEmployee(id, FALSE)
    \/ \E q \in ReportQueries, seed \in UuidSeeds : Report(q, seed)
    \/ \E q \in ReportQueries : Export(q)
    \/ \E q \in DetailedQueries : ExportDetailed(q)
    \/ \E rg \in ReportRanges, seed \in UuidSeeds :
          HandleSearch(rg[1], rg[2], "", seed)

SpecReport == Init /\ [][NextReport]_vars

----------------------------------------------------------------------------
(* The administration of employees and rosters: creation, roster edit and *)
(* the import of sheets.                                                  *)

\* a sheet row for another shift and rest day
UploadRowShiftB(slpid) ==
    [UploadRow(slpid, "N") EXCEPT !.shiftName = "Shift B", !.weekOff = "Friday"]

\* the imported sheets: a badge named in two rows, two badges, a row without
\* a name, a row without shift and rest day
ImportSheets ==
    {<<UploadRowShiftB("slp1"), UploadRow("slp1", "N")>>,
     <<UploadRow("slp1", ""), UploadRowShiftB("SLP2")>>,
     <<UploadRow("slp1", "N"), UploadRow("SLP2", "N")>>,
     <<[UploadRow("SLP2", "N") EXCEPT !.shiftName = "", !.weekOff = ""]>>}

\* the values of a roster edit
RosterEdits == {<<"Shift A", "THURSDAY">>, <<"Shift B", "Friday">>}

NextImport ==
    \/ \E c \in CreateInputs :
          CreateEmployee(c.slpid, c.shiftName, c.weekOff, c.rosterFails)
    \/ \E id \in EmployeeIds, act \in BOOLEAN : UpdateEmployee(id, act)
    \/ \E id \in RosterIds, ed \in RosterEdits : UpdateRoster(id, ed[1], ed[2])
    \/ \E rows \in ImportSheets : UploadRoster(rows)

SpecImport == Init /\ [][NextImport]_vars

----------------------------------------------------------------------------
(* The gate with the bulk close, and the reports over the three days: an  *)
(* employee can have several sessions dated the same day.                 *)

\* the query of the three days, every department, presences and absences
ThreeDays == Query(0, 2, "", FALSE)

NextSameDay ==
    \/ Tick
    \/ \E s \in SlpidInputs, a \in BOOLEAN : ScanGate(s, a)
    \/ \E ids \in {<<1>>, <<1, 2>>} : BulkOut(ids)
    \/ \E c \in CreateInputs :
          CreateEmployee(c.slpid, c.shiftName, c.weekOff, c.rosterFails)
    \/ \E seed \in UuidSeeds : Report(ThreeDays, seed)
    \/ Export(ThreeDays)

SpecSameDay == Init /\ [][NextSameDay]_vars

----------------------------------------------------------------------------
(* The gate on a storage that can fail: an await of a handler throws and  *)
(* the handler's catch answers 500.                                       *)

\* POST /api/gate/bulk-out when an await of the k-th turn of the loop throws
\* (lines 525, 529): the updates of the turns before it were awaited one by
\* one, outside any transaction, and stay; the catch of line 534 answers
BulkOutFailing(attendanceIds, k) ==
    /\ k \in 1..Len(attendanceIds)
    /\ attendance' = BulkResult(SubSeq(attendanceIds, 1, k - 1)).att
    /\ resp' = Response("gate/bulk-out", 500, "")
    /\ UNCHANGED <<users, session, employees, rosters, nextId, now, inflight>>

\* POST /api/gate/entry when one of its awaits throws (lines 435, 442, 457,
\* 472, 477): the handler has at most one write and a statement that fails
\* writes nothing; the catch of line 490 answers
ScanGateFailing(slpid) ==
    /\ slpid # ""
    /\ resp' = Response("gate/entry", 500, "")
    /\ UNCHANGED <<users, session, employees, rosters, attendance, nextId, now, inflight>>

NextFault ==
    \/ Tick
    \/ \E s \in SlpidInputs, a \in BOOLEAN : ScanGate(s, a)
    \/ \E s \in SlpidInputs : ScanGateFailing(s)
    \/ \E ids \in BulkIdInputs : BulkOut(ids)
    \/ \E ids \in BulkIdInputs, k \in 1..3 : BulkOutFailing(ids, k)
    \/ \E c \in CreateInputs :
          CreateEmployee(c.slpid, c.shiftName, c.weekOff, c.rosterFails)

SpecFault == Init /\ [][NextFault]_vars

----------------------------------------------------------------------------
(* DELETE /api/rosters, one await at a time, beside the scans in flight.  *)

\* the request arrives and db.delete(attendance) is issued (line 716)
ReceiveWipe(r) ==
    /\ inflight[r].pc = "idle"
    /\ inflight' = [inflight EXCEPT ![r] = [Idle EXCEPT !.pc = "deleteAttendance"]]
    /\ UNCHANGED <<users, session, employees, rosters, attendance, nextId, now, resp>>

\* line 716 resolves, db.delete(rosters) is issued
DeleteAttendance(r) ==
    /\ inflight[r].pc = "deleteAttendance"
    /\ attendance' = <<>>
    /\ inflight' = [inflight EXCEPT ![r] = [Idle EXCEPT !.pc = "deleteRosters"]]
    /\ UNCHANGED <<users, session, employees, rosters, nextId, now, resp>>

\* line 717 resolves, db.delete(employees) is issued
DeleteRosters(r) ==
    /\ inflight[r].pc = "deleteRosters"
    /\ rosters' = <<>>
    /\ inflight' = [inflight EXCEPT ![r] = [Idle EXCEPT !.pc = "deleteEmployees"]]
    /\ UNCHANGED <<users, session, employees, attendance, nextId, now, resp>>

\* line 718 resolves and line 719 answers
DeleteEmployees(r) ==
    /\ inflight[r].pc = "deleteEmployees"
    /\ employees' = <<>>
    /\ resp' = Response("rosters/delete", 200, "")
    /\ inflight' = Finish(r)
    /\ UNCHANGED <<users, session, rosters, attendance, nextId, now>>

\* one scan (slot 1) beside one wipe (slot 2)
NextWipe ==
    \/ Tick
    \/ \E c \in CreateInputs :
          /\ c.slpid = RaceSlpid
          /\ CreateEmployee(c.slpid, c.shiftName, c.weekOff, c.rosterFails)
    \/ \E a \in BOOLEAN : Receive(1, RaceSlpid, a)
    \/ SelectEmployee(1)
    \/ SelectActiveEntry(1)
    \/ UpdateGateOut(1)
    \/ SelectRoster(1)
    \/ InsertAttendance(1)
    \/ ReceiveWipe(2)
    \/ DeleteAttendance(2)
    \/ DeleteRosters(2)
    \/ DeleteEmployees(2)

SpecWipe == Init /\ [][NextWipe]_vars

----------------------------------------------------------------------------
(* The accounts: POST /api/auth/login and the administration of users. The *)
(* admin routes are called by a signed-in admin (checkRole passes).        *)

Usernames == {"admin", "guard"}
Passwords == {"secret", "Welcome", "guess"}

\* db.select().from(users).where(eq(users.username, username)).limit(1)
FindUser(us, username) ==
    LET found == SelectSeq(us, LAMBDA u : u.username = username)
    IN  IF found = <<>> THEN <<>> ELSE <<found[1]>>

\* db.update(users).set(set).where(eq(users.id, id)): the columns named in
\* set take its values
SetUser(us, id, set) ==
    [i \in 1..Len(us) |->
        IF us[i].id = id
        THEN [f \in DOMAIN us[i] |-> IF f \in DOMAIN set THEN set[f] ELSE us[i][f]]
        ELSE us[i]]

\* the account locks one wrong password late
ShouldLockAfterThree(newAttempts) == newAttempts > 3

\* const shouldLock = newAttempts >= 3
ShouldLock(newAttempts) == newAttempts >= 3

\* The handler of POST /api/auth/login on the table us and the browser's
\* session sess: the table and the session it leaves, and its answer.
LoginResult(us, sess, username, password) ==
    LET user == FindUser(us, username)
        out(u, se, status, action) ==
            [users |-> u, session |-> se, status |-> status, action |-> action]
    IN  IF username = "" \/ password = "" THEN out(us, sess, 400, "required")
        ELSE IF user = <<>> THEN out(us, sess, 401, "invalid")
        ELSE IF user[1].isLocked THEN out(us, sess, 403, "locked")
        ELSE IF ~user[1].isActive THEN out(us, sess, 403, "inactive")
        ELSE IF user[1].password # password
        THEN LET newAttempts == user[1].failedLoginAttempts + 1
                 shouldLock == ShouldLock(newAttempts)
                 after == SetUser(us, user[1].id,
                                  [failedLoginAttempts |-> newAttempts,
                                   isLocked |-> shouldLock])
             IN  IF shouldLock THEN out(after, sess, 403, "locked")
                 ELSE out(after, sess, 401, "invalid")
        ELSE out(SetUser(us, user[1].id, [failedLoginAttempts |-> 0]),
                 user[1].id, 200, "signed_in")

Login(username, password) ==
    LET r == LoginResult(users, session, username, password)
    IN  /\ users' = r.users
        /\ session' = r.session
        /\ resp' = Response("auth/login", r.status, r.action)
        /\ UNCHANGED <<employees, rosters, attendance, nextId, now, inflight>>

\* POST /api/auth/logout
Logout ==
    /\ session' = NULL
    /\ resp' = Response("auth/logout", 200, "")
    /\ UNCHANGED <<employees, rosters, attendance, nextId, now, inflight, users>>

\* POST /api/users; the columns it does not set take the defaults the login
\* reads them with: no failed attempt and no lock. Usernames are not reused.
CreateUser(username, password) ==
    /\ nextId.usr <= MaxUsers
    /\ FindUser(users, username) = <<>>
    /\ users' = Append(users, [id |-> nextId.usr, username |-> username,
                               password |-> password, isActive |-> TRUE,
                               isLocked |-> FALSE, failedLoginAttempts |-> 0,
                               mustChangePassword |-> FALSE])
    /\ nextId' = [nextId EXCEPT !.usr = @ + 1]
    /\ resp' = Response("users/create", 201, "")
    /\ UNCHANGED <<employees, rosters, attendance, now, inflight, session>>

\* PUT /api/users/:id: isActive is set, the password when one is given
UpdateUser(id, isActive, password) ==
    /\ users' = SetUser(users, id,
                        IF password # ""
                        THEN [isActive |-> isActive, password |-> password]
                        ELSE [isActive |-> isActive])
    /\ resp' = Response("users/update", 200, "")
    /\ UNCHANGED <<employees, rosters, attendance, nextId, now, inflight, session>>

\* POST /api/users/:id/reset-password
ResetPassword(id) ==
    /\ users' = SetUser(users, id,
                        [password |-> "Welcome", isLocked |-> FALSE,
                         failedLoginAttempts |-> 0, mustChangePassword |-> TRUE])
    /\ resp' = Response("users/reset-password",
                        IF \E i \in 1..Len(users) : users[i].id = id
                        THEN 200 ELSE 404, "")
    /\ UNCHANGED <<employees, rosters, attendance, nextId, now, inflight, session>>

\* POST /api/users/:id/unlock
Unlock(id) ==
    /\ users' = SetUser(users, id,
                        [isLocked |-> FALSE, failedLoginAttempts |-> 0])
    /\ resp' = Response("users/unlock",
                        IF \E i \in 1..Len(users) : users[i].id = id
                        THEN 200 ELSE 404, "")
    /\ UNCHANGED <<employees, rosters, attendance, nextId, now, inflight, session>>

\* POST /api/auth/change-password, by the signed-in browser
ChangePassword(currentPassword, newPassword) ==
    LET user == SelectSeq(users, LAMBDA u : u.id = session)
        done(status) ==
            /\ resp' = Response("auth/change-password", status, "")
            /\ UNCHANGED <<employees, rosters, attendance, nextId, now, inflight,
                           session>>
    IN  IF session = NULL THEN done(401) /\ UNCHANGED users
        ELSE IF currentPassword = "" \/ newPassword = ""
        THEN done(400) /\ UNCHANGED users
        ELSE IF user = <<>> THEN done(404) /\ UNCHANGED users
        ELSE IF user[1].password # currentPassword
        THEN done(401) /\ UNCHANGED users
        ELSE /\ users' = SetUser(users, session,
                                 [password |-> newPassword,
                                  mustChangePassword |-> FALSE])
             /\ done(200)

UserIds == 1..MaxUsers

NextLogin ==
    \/ \E u \in Usernames : CreateUser(u, "secret")
    \/ \E u \in Usernames \cup {""}, p \in Passwords \cup {""} : Login(u, p)
    \/ Logout
    \/ \E id \in UserIds, a \in BOOLEAN, p \in {"", "secret"} : UpdateUser(id, a, p)
    \/ \E id \in UserIds : ResetPassword(id)
    \/ \E id \in UserIds : Unlock(id)
    \/ \E c \in Passwords, n \in {"secret"} : ChangePassword(c, n)

SpecLogin == Init /\ [][NextLogin]_vars

----------------------------------------------------------------------------
(* Properties *)

\* the rows of an employee without a gate-out time
OpenSessions(empId) ==
    {i \in 1..Len(attendance) :
        attendance[i].employeeId = empId /\ attendance[i].gateOutTime = NULL}

\* C1: after any sequence of whole scans, bulk closes, roster edits and
\* imports, employee creations and updates, every employee has no or one
\* session without a gate-out time, never more.
AtMostOneOpenSession ==
    \A i, j \in 1..Len(attendance) :
        (/\ attendance[i].employeeId = attendance[j].employeeId
         /\ attendance[i].gateOutTime = NULL
         /\ attendance[j].gateOutTime = NULL) => i = j

\* an employee with a closed session has scanned in again
ScannedInAgainAfterClose ==
    \E i, j \in 1..Len(attendance) :
        /\ i < j
        /\ attendance[i].employeeId = attendance[j].employeeId
        /\ attendance[i].gateOutTime # NULL
        /\ attendance[j].gateOutTime = NULL

Abs(x) == IF x < 0 THEN -x ELSE x

\* C3: a scan of an employee whose open session began less than one hour ago
\* answers that the card was already scanned and leaves the ledger as it
\* was, however often it is repeated inside the hour.
DuplicateScanLeavesLedger ==
    /\ [](\A s \in SlpidInputs, o \in BOOLEAN :
            \A e \in 1..Len(employees) :
                (/\ employees[e].slpid = ToUpperCase(s)
                 /\ employees[e].isActive
                 /\ \E a \in OpenSessions(employees[e].id) :
                        now - attendance[a].gateInTime < TicksPerHour)
                => LET r == ScanResult(s, o)
                   IN  /\ r.resp.status = 400
                       /\ r.resp.action = "none"
                       /\ r.att = attendance
                       /\ ~r.inserted)
    /\ [][(resp'.op = "gate/entry" /\ resp'.action = "none")
            => UNCHANGED <<users, session, employees, rosters, attendance, nextId>>]_vars

\* a scan inside the hour has been answered
DuplicateScanAnswered ==
    /\ resp.op = "gate/entry"
    /\ resp.action = "none"
    /\ \E a \in 1..Len(attendance) :
          /\ attendance[a].gateOutTime = NULL
          /\ now - attendance[a].gateInTime > 0
          /\ now - attendance[a].gateInTime < TicksPerHour

\* A scan of an active employee whose session has been open for an hour or
\* more answers gate-out, writes the gate-out time on that session and on no
\* other, and reports hours that agree with the session's.
RoundTrip(Agree(_, _)) ==
    \A s \in SlpidInputs, o \in BOOLEAN :
        \A e \in 1..Len(employees), a \in 1..Len(attendance) :
            (/\ employees[e].slpid = ToUpperCase(s)
             /\ employees[e].isActive
             /\ a \in OpenSessions(employees[e].id)
             /\ now - attendance[a].gateInTime >= TicksPerHour)
            => LET r == ScanResult(s, o)
               IN  /\ r.resp.status = 200
                   /\ r.resp.action = "gate_out"
                   /\ ~r.inserted
                   /\ Len(r.att) = Len(attendance)
                   /\ \A k \in 1..Len(attendance) : k # a => r.att[k] = attendance[k]
                   /\ r.att[a] = [attendance[a] EXCEPT
                                     !.gateOutTime = now,
                                     !.isOvertime = r.att[a].isOvertime]
                   /\ Agree(r.resp.hours, r.att[a].gateOutTime - r.att[a].gateInTime)

\* tenths of an hour against ticks: the same duration
ExactHours(tenths, elapsed) == tenths * TicksPerHour = 10 * elapsed

\* tenths of an hour against ticks: the duration to the nearest tenth
RoundedHours(tenths, elapsed) ==
    2 * Abs(tenths * TicksPerHour - 10 * elapsed) <= TicksPerHour

\* C4, as amended: a gate-in followed by a scan of the same badge an hour or
\* more later answers gate-out, sets the gate-out time to now on exactly the
\* session the gate-in opened, and the hours in the response are gate-out
\* minus gate-in rounded to one decimal place.
RoundTripRoundedHours == RoundTrip(RoundedHours)

\* C4, as stated: the hours in the response equal gate-out minus gate-in.
RoundTripExactHours == RoundTrip(ExactHours)

\* a session has just been closed by a scan after a duration that is no
\* whole number of tenths of an hour
ClosedAfterOddDuration ==
    /\ resp.action = "gate_out"
    /\ \E a \in 1..Len(attendance) :
          /\ attendance[a].gateOutTime = now
          /\ (10 * (now - attendance[a].gateInTime)) % TicksPerHour # 0

\* C5: every closed session, closed by a scan or by the bulk close, is
\* flagged overtime exactly when gate-out minus gate-in is nine hours or
\* more.
OvertimeIffNineHours ==
    \A a \in 1..Len(attendance) :
        attendance[a].gateOutTime # NULL =>
            (attendance[a].isOvertime <=>
                attendance[a].gateOutTime - attendance[a].gateInTime >= 9 * TicksPerHour)

\* the bulk close has just closed a session at exactly nine hours, flagged,
\* beside a session closed earlier than that, not flagged
ClosedAtNineHoursAndBelow ==
    /\ resp.op = "gate/bulk-out"
    /\ \E a \in 1..Len(attendance) :
          /\ attendance[a].gateOutTime = now
          /\ now - attendance[a].gateInTime = 9 * TicksPerHour
          /\ attendance[a].isOvertime
    /\ \E b \in 1..Len(attendance) :
          /\ attendance[b].gateOutTime # NULL
          /\ attendance[b].gateOutTime - attendance[b].gateInTime < 9 * TicksPerHour
          /\ ~attendance[b].isOvertime

\* the active employees without an open session whose roster's rest day is
\* the weekday of now, compared without regard to case
OnRestDay ==
    {e \in 1..Len(employees) :
        /\ employees[e].isActive
        /\ OpenSessions(employees[e].id) = {}
        /\ \E k \in 1..Len(rosters) :
              /\ rosters[k].employeeId = employees[e].id
              /\ ToLowerCase(rosters[k].weekOff) = ToLowerCase(LocalWeekday(now))}

\* C6: a fresh scan of an active employee on the weekday that is the
\* roster's rest day, compared without regard to case, with the override
\* false asks for the week-off confirmation, creates no session and changes
\* nothing else.
RestDayScanAsksConfirmation ==
    /\ [](\A s \in SlpidInputs : \A e \in OnRestDay :
            employees[e].slpid = ToUpperCase(s)
            => LET r == ScanResult(s, FALSE)
               IN  /\ r.resp.status = 409
                   /\ r.att = attendance
                   /\ ~r.inserted)
    /\ [][(resp'.op = "gate/entry" /\ resp'.status = 409)
            => UNCHANGED <<users, session, employees, rosters, attendance, nextId>>]_vars

\* the confirmation has been asked of an employee on the rest day
ConfirmationAsked ==
    /\ resp.op = "gate/entry"
    /\ resp.status = 409
    /\ OnRestDay # {}

\* C7: every session a gate-in creates has no gate-out time, is not flagged
\* overtime, and carries the week-off flag exactly when the day of the scan
\* was the employee's rest day and the override was true; an employee with
\* no roster gets the shift "General" and the flag false.
GateInCreatesPlainSession ==
    /\ \A a \in 1..Len(attendance) :
          attendance[a].gateOutTime = NULL => ~attendance[a].isOvertime
    /\ \A s \in SlpidInputs, o \in BOOLEAN :
          LET r == ScanResult(s, o) IN
          r.inserted =>
            LET row == r.att[Len(r.att)]
                ros == {k \in 1..Len(rosters) : rosters[k].employeeId = row.employeeId}
                restDay == \E k \in ros :
                    ToLowerCase(rosters[k].weekOff) = ToLowerCase(LocalWeekday(now))
            IN  /\ r.resp.action = "gate_in"
                /\ Len(r.att) = Len(attendance) + 1
                /\ row.gateOutTime = NULL
                /\ ~row.isOvertime
                /\ row.isWeekOffEntry = (restDay /\ o)
                /\ ros = {} => (row.shiftName = "General" /\ ~row.isWeekOffEntry)
                /\ \A k \in ros : row.shiftName = rosters[k].shiftName

\* a gate-in on the rest day with the override, and a gate-in of an
\* employee without a roster
OverrideAndNoRosterGateIns ==
    /\ resp.action = "gate_in"
    /\ \E a \in 1..Len(attendance) : attendance[a].isWeekOffEntry
    /\ \E b \in 1..Len(attendance) :
          /\ attendance[b].shiftName = "General"
          /\ ~attendance[b].isWeekOffEntry

\* C8: a scan of a badge code that names no employee fails as not found, a
\* scan of a deactivated employee's badge fails as inactive, and neither
\* creates or changes a session, a roster or an employee.
UnknownOrInactiveBadgeRejected ==
    /\ [](\A s \in SlpidInputs, o \in BOOLEAN :
            LET r == ScanResult(s, o)
                holders == {e \in 1..Len(employees) :
                               employees[e].slpid = ToUpperCase(s)}
            IN  /\ holders = {} =>
                      (r.resp.status = 404 /\ r.att = attendance /\ ~r.inserted)
                /\ (\E e \in holders : ~employees[e].isActive) =>
                      (r.resp.status = 403 /\ r.att = attendance /\ ~r.inserted))
    /\ [][(resp'.op = "gate/entry" /\ resp'.status \in {403, 404})
            => UNCHANGED <<users, session, employees, rosters, attendance, nextId>>]_vars

\* a deactivated employee with an open session has been turned away
InactiveBadgeRejected ==
    /\ resp.op = "gate/entry"
    /\ resp.status = 403
    /\ \E e \in 1..Len(employees) :
          ~employees[e].isActive /\ OpenSessions(employees[e].id) # {}

\* C9: the bulk close skips a session that is already closed: its gate-out
\* time and overtime flag keep the values of its first close.
BulkOutSkipsClosedSessions ==
    [][resp'.op = "gate/bulk-out" =>
        \A a \in 1..Len(attendance) :
            attendance[a].gateOutTime # NULL => attendance'[a] = attendance[a]]_vars

\* C10: the count the bulk close returns is the number of sessions that
\* went from open to closed during the call.
BulkOutCountsClosures ==
    [][(resp'.op = "gate/bulk-out" /\ resp'.status = 200) =>
        resp'.count = Cardinality({a \in 1..Len(attendance) :
                                      /\ attendance[a].gateOutTime = NULL
                                      /\ attendance'[a].gateOutTime # NULL})]_vars

\* the identifiers of a request that resolve to a row of the ledger
ResolvingIds(attendanceIds) ==
    SelectSeq(attendanceIds, LAMBDA id : AttendanceById(attendance, id) # <<>>)

\* C11: in the bulk close an identifier that resolves to no session is
\* skipped: the request is still answered 200, the identifier is not
\* counted, it changes no row, and the other identifiers of the request
\* are processed as if it had not been sent.
BulkOutSkipsUnknownIds ==
    /\ [](\A ids \in BulkIdInputs :
            /\ BulkResult(ids) = BulkResult(ResolvingIds(ids))
            /\ BulkResult(ids).count = Len(ResolvingIds(ids))
            /\ ResolvingIds(ids) = <<>> => BulkResult(ids).att = attendance)
    /\ [][(resp'.op = "gate/bulk-out" /\ resp'.status = 200 /\ resp'.count = 0)
            => UNCHANGED attendance]_vars

\* a bulk close whose identifiers resolved to nothing was answered 200 with
\* a count of 0 while a session stayed open
UnknownIdSkipped ==
    /\ resp.op = "gate/bulk-out"
    /\ resp.status = 200
    /\ resp.count = 0
    /\ \E a \in 1..Len(attendance) : attendance[a].gateOutTime = NULL

\* the rows of the ledger that a step rewrites
RowsUpdated ==
    {a \in 1..Len(attendance) : a > Len(attendance') \/ attendance'[a] # attendance[a]}

\* C19: a scan answered gate-in appends exactly one session and rewrites
\* none, a scan answered gate-out rewrites exactly one session and appends
\* none, a scan answered anything else (duplicate scan, confirmation
\* required, unknown or inactive badge) leaves the ledger as it was; no scan
\* changes an employee or a roster.
ScanWritesOneSessionOrNone ==
    [][resp'.op = "gate/entry" =>
        /\ UNCHANGED <<users, session, employees, rosters>>
        /\ resp'.action = "gate_in" =>
              /\ Len(attendance') = Len(attendance) + 1
              /\ RowsUpdated = {}
        /\ resp'.action = "gate_out" =>
              /\ Len(attendance') = Len(attendance)
              /\ Cardinality(RowsUpdated) = 1
        /\ resp'.action \notin {"gate_in", "gate_out"} =>
              UNCHANGED attendance]_vars

\* a scan has just closed the second session of an employee whose first
\* session keeps the gate-out time of an earlier scan
SecondSessionClosedAlone ==
    /\ resp.op = "gate/entry"
    /\ resp.action = "gate_out"
    /\ Len(attendance) = 2
    /\ attendance[1].employeeId = attendance[2].employeeId
    /\ attendance[1].gateOutTime # NULL
    /\ attendance[1].gateOutTime < now
    /\ attendance[2].gateOutTime = now

\* the active employees whose sessions are all closed, at least one of them
\* being in the ledger
CheckedOut ==
    {e \in 1..Len(employees) :
        /\ employees[e].isActive
        /\ OpenSessions(employees[e].id) = {}
        /\ \E a \in 1..Len(attendance) : attendance[a].employeeId = employees[e].id}

\* C20: there is no daily cap and no cooldown: whenever all sessions of an
\* active employee are closed, a scan of the badge that the rest day does
\* not block is answered gate-in at that very moment, whatever the time
\* since the gate-out and however many sessions the employee already has
\* on that date; it appends one session dated by the day of the scan and
\* leaves every earlier row as it was.
RescanAfterGateOutGatesIn ==
    \A e \in CheckedOut : \A s \in SlpidInputs, o \in BOOLEAN :
        LET r == ScanResult(s, o)
            restDay == \E k \in 1..Len(rosters) :
                /\ rosters[k].employeeId = employees[e].id
                /\ ToLowerCase(rosters[k].weekOff) = ToLowerCase(LocalWeekday(now))
        IN  (ToUpperCase(s) = employees[e].slpid /\ (o \/ ~restDay)) =>
              /\ r.resp.status = 200
              /\ r.resp.action = "gate_in"
              /\ Len(r.att) = Len(attendance) + 1
              /\ SubSeq(r.att, 1, Len(attendance)) = attendance
              /\ r.att[Len(r.att)].employeeId = employees[e].id
              /\ r.att[Len(r.att)].date = IsoDate(now)
              /\ r.att[Len(r.att)].gateInTime = now
              /\ r.att[Len(r.att)].gateOutTime = NULL

\* an employee has gated in again on the date of an earlier session that was
\* closed at the very instant of the new gate-in
GatedInAgainSameDate ==
    /\ resp.op = "gate/entry"
    /\ resp.action = "gate_in"
    /\ Len(attendance) = 2
    /\ attendance[1].employeeId = attendance[2].employeeId
    /\ attendance[1].date = attendance[2].date
    /\ attendance[1].gateOutTime = attendance[2].gateInTime
    /\ attendance[2].gateOutTime = NULL

\* C18: every elapsed-hours value is clamped to a minimum of 0: the hours a
\* scan computes and answers with are never negative, also when the clock
\* reading the scan took is earlier than the gate-in time of the session it
\* finds.
ElapsedHoursNeverNegative ==
    resp.op = "gate/entry" => resp.hours >= 0

\* the employees a query lists: the active ones of its department
Listed(query) ==
    {e \in 1..Len(employees) :
        /\ employees[e].isActive
        /\ query.department # "" => employees[e].department = query.department}

\* the calendar dates of a query's range
Range(query) == query.fromDate..query.toDate

\* the date falls on the weekday of the employee's roster
RestDay(e, d) ==
    \E k \in 1..Len(rosters) :
        /\ rosters[k].employeeId = employees[e].id
        /\ ToLowerCase(rosters[k].weekOff) = ToLowerCase(DayOfWeek(d))

\* the ledger has a session of the employee dated that day
HasSession(e, d) ==
    \E a \in 1..Len(attendance) :
        attendance[a].employeeId = employees[e].id /\ attendance[a].date = d

\* the rows of an answer for an employee and a date
RowsOf(rows, e, d) ==
    {i \in 1..Len(rows) : rows[i].slpid = employees[e].slpid /\ rows[i].date = d}

\* the last answer is a report; no write has happened since, so it is the
\* report of the tables as they are
ReportAnswered == resp.op = "reports" /\ resp.status = 200

\* C12: a report without onlyAbsent over a range in which no listed
\* employee has a rest day has exactly N x D rows, N the listed employees
\* and D the dates of the range: one row per employee and date, with status
\* P when the employee has a session dated that day and A otherwise.
ReportCompleteness ==
    (/\ ReportAnswered
     /\ ~resp.query.onlyAbsent
     /\ resp.query.fromDate <= resp.query.toDate
     /\ \A e \in Listed(resp.query), d \in Range(resp.query) : ~RestDay(e, d))
    => /\ Len(resp.rows) =
            Cardinality(Listed(resp.query)) * Cardinality(Range(resp.query))
       /\ \A e \in Listed(resp.query), d \in Range(resp.query) :
            /\ Cardinality(RowsOf(resp.rows, e, d)) = 1
            /\ \A i \in RowsOf(resp.rows, e, d) :
                  resp.rows[i].status = IF HasSession(e, d) THEN "P" ELSE "A"

\* two employees over two days without a rest day: four rows, one of them P
TwoEmployeesTwoDaysReported ==
    /\ ReportAnswered
    /\ resp.query = Query(1, 2, "", FALSE)
    /\ Cardinality(Listed(resp.query)) = 2
    /\ Len(resp.rows) = 4
    /\ Cardinality({i \in 1..Len(resp.rows) : resp.rows[i].status = "P"}) = 1

\* the row of the matrix for an employee
MatrixRows(rows, e) == {i \in 1..Len(rows) : rows[i].slpid = employees[e].slpid}

\* C13: in the exported matrix every listed employee has one row and every
\* date of the range one status in it: P when the employee has a session
\* dated that day, also on the rest day; otherwise WO when the day is the
\* roster's rest day; otherwise A.
MatrixClassifiesEachDay ==
    (/\ resp.op = "reports/export"
     /\ resp.status = 200
     /\ ~resp.query.onlyAbsent)
    => /\ Len(resp.rows) = Cardinality(Listed(resp.query))
       /\ \A e \in Listed(resp.query) :
            /\ Cardinality(MatrixRows(resp.rows, e)) = 1
            /\ \A i \in MatrixRows(resp.rows, e) :
                  /\ Len(resp.rows[i].days) = Cardinality(Range(resp.query))
                  /\ \A k \in 1..Len(resp.rows[i].days) :
                        LET d == resp.query.fromDate + k - 1 IN
                        resp.rows[i].days[k] =
                            IF HasSession(e, d) THEN "P"
                            ELSE IF RestDay(e, d) THEN "WO"
                            ELSE "A"

\* a matrix with a P on the rest day of one employee and a P between two A
\* for another
PresentOnRestDayExported ==
    /\ resp.op = "reports/export"
    /\ resp.status = 200
    /\ resp.query = Query(0, 2, "", FALSE)
    /\ \E e \in Listed(resp.query) : \E i \in MatrixRows(resp.rows, e) :
          /\ RestDay(e, 0)
          /\ resp.rows[i].days = <<"P", "A", "A">>
    /\ \E i \in 1..Len(resp.rows) : resp.rows[i].days = <<"A", "P", "A">>

\* the pairs of a query that are absent: no session dated that day, and the
\* day is not the rest day
AbsentPairs(query) ==
    {p \in Listed(query) \X Range(query) :
        ~HasSession(p[1], p[2]) /\ ~RestDay(p[1], p[2])}

\* C14: with onlyAbsent the report and the export have a row for an
\* (employee, date) pair exactly when the pair is absent: one row, of
\* status A, for each absent pair and no row for a pair with a session or on
\* the rest day.
OnlyAbsentRowsAreTheAbsentPairs ==
    (/\ resp.op \in {"reports", "reports/export"}
     /\ resp.status = 200
     /\ resp.query.onlyAbsent)
    => /\ Len(resp.rows) = Cardinality(AbsentPairs(resp.query))
       /\ \A i \in 1..Len(resp.rows) : resp.rows[i].status = "A"
       /\ \A e \in Listed(resp.query), d \in Range(resp.query) :
            Cardinality(RowsOf(resp.rows, e, d)) =
                IF <<e, d>> \in AbsentPairs(resp.query) THEN 1 ELSE 0

\* a report of the absences alone over three days of an employee who rested
\* on the first and had a session on the second: only the third has a row
OnlyThirdDayAbsent ==
    /\ ReportAnswered
    /\ resp.query = Query(0, 2, "", TRUE)
    /\ \E e \in Listed(resp.query) :
          /\ RestDay(e, 0) /\ ~HasSession(e, 0)
          /\ HasSession(e, 1)
          /\ RowsOf(resp.rows, e, 0) = {}
          /\ RowsOf(resp.rows, e, 1) = {}
          /\ RowsOf(resp.rows, e, 2) # {}

\* the place of a row's employee in the employees table
EmployeeIndex(row) ==
    CHOOSE e \in 1..Len(employees) : employees[e].slpid = row.slpid

ReportRunTwiceIdentical ==
    [][(/\ resp.op = "reports"
        /\ resp'.op = "reports"
        /\ resp'.query = resp.query
        /\ UNCHANGED <<users, session, employees, rosters, attendance>>)
       => resp'.rows = resp.rows]_vars

\* C17: a report asked with fromDate later than toDate is rejected as a
\* validation error; it is not answered with a successful, possibly empty,
\* result.
InvertedRangeRejected ==
    (/\ resp.op = "reports"
     /\ ~DatesMissing(resp.query)
     /\ resp.query.fromDate > resp.query.toDate)
    => resp.status = 400

\* the employees whose isActive a step turns from true to false
Deactivated ==
    {e \in 1..Len(employees) : employees[e].isActive /\ ~employees'[e].isActive}

\* C21: the step that deactivates an employee deletes and changes no
\* session, open or closed; and as long as the employee is inactive every
\* scan of the badge is answered inactive (403) and writes nothing.
DeactivationKeepsSessionsAndBlocksGate ==
    /\ [][Deactivated # {} => UNCHANGED attendance]_vars
    /\ [](\A e \in 1..Len(employees) : \A s \in SlpidInputs, o \in BOOLEAN :
            (~employees[e].isActive /\ ToUpperCase(s) = employees[e].slpid) =>
                /\ ScanResult(s, o).resp.status = 403
                /\ ScanResult(s, o).att = attendance)
    /\ [][\A e \in 1..Len(employees) :
            (/\ ~employees[e].isActive
             /\ resp'.op = "gate/entry"
             /\ resp'.status # 403)
            => \A a \in 1..Len(attendance) :
                  attendance[a].employeeId = employees[e].id
                      => attendance'[a] = attendance[a]]_vars

\* an inactive employee with a closed and an open session in the ledger has
\* been turned away at the gate
DeactivatedKeepsHistory ==
    /\ resp.op = "gate/entry"
    /\ resp.status = 403
    /\ \E e \in 1..Len(employees) :
          /\ ~employees[e].isActive
          /\ \E a, b \in 1..Len(attendance) :
                /\ attendance[a].employeeId = employees[e].id
                /\ attendance[b].employeeId = employees[e].id
                /\ attendance[a].gateOutTime # NULL
                /\ attendance[b].gateOutTime = NULL

\* the rosters of an employee
RostersOf(empId) == {k \in 1..Len(rosters) : rosters[k].employeeId = empId}

\* C22: after any sequence of employee creations, roster edits and imports,
\* also of a sheet that names a badge twice, every employee has no or one
\* roster; an import keeps every roster row it finds with its identifier
\* and employee, and adds one only for an employee that had none.
AtMostOneRosterPerEmployee ==
    /\ [](\A e \in 1..Len(employees) :
            Cardinality(RostersOf(employees[e].id)) <= 1)
    /\ [][resp'.op = "rosters/upload" =>
            /\ Len(rosters') >= Len(rosters)
            /\ \A k \in 1..Len(rosters) :
                  /\ rosters'[k].id = rosters[k].id
                  /\ rosters'[k].employeeId = rosters[k].employeeId
            /\ \A k \in (Len(rosters) + 1)..Len(rosters') :
                  RostersOf(rosters'[k].employeeId) = {}]_vars

\* a sheet with two rows for one unknown badge has been imported: one
\* employee, one roster, holding the values of the second row
BadgeImportedTwiceHasOneRoster ==
    /\ resp.op = "rosters/upload"
    /\ resp.status = 200
    /\ resp.created = 2
    /\ resp.updated = 1
    /\ Len(employees) = 1
    /\ Len(rosters) = 1
    /\ rosters[1].shiftName = "Shift A"
    /\ nextId.ros = 2

\* C23: the import counts each applied row once: the created count is the
\* number of rows that created an employee, the updated count the number
\* of rows that updated one, and a row for a known badge updates its
\* employee and its roster without creating anything.
UploadCountsEachRowOnce ==
    [][(resp'.op = "rosters/upload" /\ resp'.status = 200) =>
        /\ resp'.created = Len(employees') - Len(employees)
        /\ (Len(employees') = Len(employees) => Len(rosters') = Len(rosters))]_vars

\* the weekday name of a calendar date
WeekdayOfDate(date) == WeekdayNames[(date % 7) + 1]

\* C24: the date stored on a session is the calendar day whose weekday
\* drove the week-off decision: a session created without the week-off
\* flag carries a date whose weekday is not the rest day of the employee's
\* roster at the time of the gate-in.
PlainSessionNotDatedOnRestDay ==
    [][(resp'.op = "gate/entry" /\ resp'.action = "gate_in") =>
        LET row == attendance'[Len(attendance')] IN
        ~row.isWeekOffEntry =>
            \A k \in 1..Len(rosters) :
                rosters[k].employeeId = row.employeeId =>
                    ToLowerCase(rosters[k].weekOff) #
                        ToLowerCase(WeekdayOfDate(row.date))]_vars

\* the session a row of a report was made from
SessionOfRow(row) == CHOOSE a \in 1..Len(attendance) : attendance[a].id = row.id

\* the presence rows of the last answer: the P rows of a report, every row
\* of the detailed export
PresenceRows ==
    IF resp.op = "reports" /\ resp.status = 200
    THEN {i \in 1..Len(resp.rows) : resp.rows[i].status = "P"}
    ELSE IF resp.op = "reports/export-detailed"
    THEN 1..Len(resp.rows)
    ELSE {}

\* C25: on every presence row the total hours are gate-out minus gate-in of
\* the session of the row when it is closed and 0 when it is open, and the
\* overtime hours are 0 for a total of at most nine hours and the total
\* minus nine hours above it. Hours are in hundredths, as printed.
PresenceRowHours ==
    \A i \in PresenceRows :
        LET row == resp.rows[i]
            a == attendance[SessionOfRow(row)]
            total == IF a.gateOutTime = NULL
                     THEN 0
                     ELSE (100 * (a.gateOutTime - a.gateInTime)) \div TicksPerHour
        IN  /\ row.totalHours = total
            /\ row.otHours = IF total <= 100 * OvertimeHours
                             THEN 0
                             ELSE total - 100 * OvertimeHours

\* a report with a session of exactly nine hours, without overtime hours,
\* and a session of more than nine hours
NineHoursAndMoreReported ==
    /\ ReportAnswered
    /\ \E i, j \in PresenceRows :
          /\ resp.rows[i].totalHours = 100 * OvertimeHours
          /\ resp.rows[i].otHours = 0
          /\ resp.rows[j].totalHours > 100 * OvertimeHours
          /\ resp.rows[j].otHours > 0

\* the sessions of an employee dated a day, by their place in the ledger
SessionsOn(e, d) ==
    {a \in 1..Len(attendance) :
        attendance[a].employeeId = employees[e].id /\ attendance[a].date = d}

\* C26: however many sessions an employee has on a date, the report has at
\* most one row for the pair, made from the first of them in ledger order,
\* and the matrix has one cell for the pair and counts the date once.
OneRowPerEmployeeAndDate ==
    /\ ReportAnswered =>
          \A e \in Listed(resp.query), d \in Range(resp.query) :
              /\ Cardinality(RowsOf(resp.rows, e, d)) <= 1
              /\ SessionsOn(e, d) # {} =>
                    \A i \in RowsOf(resp.rows, e, d) :
                        LET first == CHOOSE a \in SessionsOn(e, d) :
                                        \A b \in SessionsOn(e, d) : a <= b
                        IN  resp.rows[i] = PresentRow(attendance[first])
    /\ (resp.op = "reports/export" /\ resp.status = 200 /\ ~resp.query.onlyAbsent) =>
          \A e \in Listed(resp.query) : \A i \in MatrixRows(resp.rows, e) :
              /\ Len(resp.rows[i].days) = Cardinality(Range(resp.query))
              /\ resp.rows[i].totalPresent =
                    Cardinality({d \in Range(resp.query) : SessionsOn(e, d) # {}})

\* a report over a day on which an employee has two sessions: one row for
\* the pair, with the identifier of the first session
SecondSameDaySessionNotReported ==
    /\ ReportAnswered
    /\ \E e \in Listed(resp.query), d \in Range(resp.query) :
          /\ Cardinality(SessionsOn(e, d)) = 2
          /\ \E i \in RowsOf(resp.rows, e, d) :
                /\ RowsOf(resp.rows, e, d) = {i}
                /\ \A a \in SessionsOn(e, d) : resp.rows[i].id <= attendance[a].id

\* C27: a storage failure is never partially applied: when a scan or a
\* bulk close answers with a failure caused by a storage error, also one on
\* the k-th identifier of the request, the call has created and changed no
\* session.
StorageFailureWritesNothing ==
    [][(resp'.op \in {"gate/entry", "gate/bulk-out"} /\ resp'.status = 500)
        => UNCHANGED attendance]_vars

\* the open sessions of employees who are inactive
OpenOfInactive ==
    {a \in 1..Len(attendance) :
        /\ attendance[a].gateOutTime = NULL
        /\ \E e \in 1..Len(employees) :
              employees[e].id = attendance[a].employeeId /\ ~employees[e].isActive}

\* C28: the open session of an inactive employee cannot be closed at the
\* gate: a scan of the badge is answered inactive whatever the time since
\* the gate-in, and the session changes only in a step of the bulk close.
InactiveOpenSessionStaysOpen ==
    /\ [](\A a \in OpenOfInactive : \A s \in SlpidInputs, o \in BOOLEAN :
            ToUpperCase(s) = attendance[a].slpid =>
                /\ ScanResult(s, o).resp.status = 403
                /\ ScanResult(s, o).att = attendance)
    /\ [][\A a \in OpenOfInactive :
            attendance'[a] # attendance[a] => resp'.op = "gate/bulk-out"]_vars

\* an inactive employee whose session has been open for more than nine
\* hours has been turned away
InactiveTurnedAwayAfterNineHours ==
    /\ resp.op = "gate/entry"
    /\ resp.status = 403
    /\ \E a \in OpenOfInactive :
          IsOvertime(HoursElapsed(now, attendance[a].gateInTime))

UserOf(us, id) == SelectSeq(us, LAMBDA u : u.id = id)[1]

\* C30: every account has at most three failed attempts and is locked exactly
\* when it has three. A login on an active account that is not locked sets
\* the count to 0 and signs in when the password is right, and otherwise
\* adds one to the count, signs nobody in and locks the account exactly when
\* this is the third wrong password in a row. A login on a locked account,
\* whatever the password, is answered 403, signs nobody in and changes no
\* account. Only an unlock or a password reset takes a lock away, and it
\* clears the count with it.
LockedOnThirdWrongPassword ==
    /\ [](\A i \in 1..Len(users) :
            LET u == users[i] IN
            /\ u.failedLoginAttempts \in 0..3
            /\ u.isLocked <=> u.failedLoginAttempts = 3
            /\ \A p \in Passwords :
                  LET r == LoginResult(users, session, u.username, p)
                      v == UserOf(r.users, u.id)
                  IN  IF u.isLocked
                      THEN /\ r.status = 403
                           /\ r.users = users
                           /\ r.session = session
                      ELSE u.isActive =>
                           IF p = u.password
                           THEN /\ r.status = 200
                                /\ r.session = u.id
                                /\ v.failedLoginAttempts = 0
                                /\ ~v.isLocked
                           ELSE /\ r.status # 200
                                /\ r.session = session
                                /\ v.failedLoginAttempts = u.failedLoginAttempts + 1
                                /\ v.isLocked <=> u.failedLoginAttempts = 2)
    /\ [][\A i \in 1..Len(users) :
            (users[i].isLocked /\ ~users'[i].isLocked)
            => /\ resp'.op \in {"users/unlock", "users/reset-password"}
               /\ users'[i].failedLoginAttempts = 0]_vars

\* an account has been locked by its third wrong password and has since been
\* refused with the right one
ThirdWrongPasswordLocked ==
    /\ resp.op = "auth/login"
    /\ resp.action = "locked"
    /\ \E i \in 1..Len(users) :
          /\ users[i].isLocked
          /\ users[i].isActive
          /\ users[i].failedLoginAttempts = 3
          /\ LoginResult(users, session, users[i].username,
                         users[i].password).status = 403

====
